---- MODULE Spec2Model ----
(***************************************************************************)
(* Model of main.go: the preflight (checkDependencies), the two queries    *)
(* (getActiveWindowTitle, getActiveProcessName), each a sequence of        *)
(* external commands, and the polling loop monitorActivity with its        *)
(* consecutive-error backoff, its report line and its classification tag.  *)
(* The desktop (which window has the focus) is the environment: it may     *)
(* change between any two steps of the monitor, so each lookup of the      *)
(* active window may yield any window.                                     *)
(*                                                                         *)
(* Strings the code computes on (command output, process names, titles)    *)
(* are sequences of one-character strings.  The timestamp of a sample is   *)
(* not modelled.                                                           *)
(***************************************************************************)
EXTENDS Integers, Sequences, FiniteSets, TLC

VARIABLES pc, checks, consecutiveErrors, windowID, pid, err,
          windowTitle, processName, cur, hist

vars == <<pc, checks, consecutiveErrors, windowID, pid, err,
          windowTitle, processName, cur, hist>>

(* ---------------------------------------------------------------------- *)
(* Bounds and program constants                                            *)
(* ---------------------------------------------------------------------- *)

\* number of completed ticks whose summary is remembered (sliding window)
MaxHist == 3

maxConsecutiveErrors == 3

\* monitorActivity(5 * time.Second), in seconds
interval == 5

\* time.Sleep(10 * time.Second), in seconds
errorBackoff == 10

(* ---------------------------------------------------------------------- *)
(* Strings                                                                 *)
(* ---------------------------------------------------------------------- *)

Upper == <<"A","B","C","D","E","F","G","H","I","J","K","L","M",
           "N","O","P","Q","R","S","T","U","V","W","X","Y","Z">>

Lower == <<"a","b","c","d","e","f","g","h","i","j","k","l","m",
           "n","o","p","q","r","s","t","u","v","w","x","y","z">>

ToLowerChar(c) ==
  IF \E i \in 1..26 : Upper[i] = c
  THEN Lower[CHOOSE i \in 1..26 : Upper[i] = c]
  ELSE c

\* no case conversion at all
ToLower_Identity(s) == s

\* strings.ToLower
ToLower(s) == [i \in 1..Len(s) |-> ToLowerChar(s[i])]

\* strings.Contains
Contains(s, substr) ==
  \E i \in 0..(Len(s) - Len(substr)) :
     SubSeq(s, i + 1, i + Len(substr)) = substr

IsSpace(c) == c \in {" ", "\n", "\t", "\r"}

RECURSIVE TrimLeft(_)
TrimLeft(s) ==
  IF s # <<>> /\ IsSpace(Head(s)) THEN TrimLeft(Tail(s)) ELSE s

RECURSIVE TrimRight(_)
TrimRight(s) ==
  IF s # <<>> /\ IsSpace(s[Len(s)])
  THEN TrimRight(SubSeq(s, 1, Len(s) - 1))
  ELSE s

\* strings.TrimSpace
TrimSpace(s) == TrimRight(TrimLeft(s))

chrome == <<"c","h","r","o","m","e">>
code   == <<"c","o","d","e">>
nvim   == <<"n","v","i","m">>

(* ---------------------------------------------------------------------- *)
(* The desktop: windows, their titles and the processes that own them      *)
(* ---------------------------------------------------------------------- *)

NoWin == 0

ProcNames ==
  << <<"G","o","o","g","l","e","-","c","h","r","o","m","e">>,
     <<"C","o","d","e">>,
     <<"n","v","i","m","-","q","t">>,
     <<"b","a","s","h">>,
     <<"c","o","d","e","c","o","v">>,
     <<"c","o","d","e","-","C","h","r","o","m","e">>,
     <<"N","V","I","M","-","c","o","d","e">>,
     <<"N","v","i","m">> >>

Windows == 1..Len(ProcNames)

\* the title of window w
TitleOf(w) == <<"w", ToString(w)>>

\* what "xdotool getwindowname w" prints
WindowNameOutput(w) == TitleOf(w) \o <<"\n">>

\* what "ps -p <pid of w> -o comm=" prints
PsOutput(w) == ProcNames[w] \o <<"\n">>

\* what "xdotool getwindowpid w" yields once trimmed: the owner of window w
PidOf(w) == w

\* what "xdotool getactivewindow" can yield once trimmed: the window that
\* has the focus at the time of the call, which the user may have moved
\* since the last call, or NoWin when the command fails (no window has
\* the focus, or the X server cannot be reached)
ActiveWindow == Windows \cup {NoWin}

NoString == <<>>

(* ---------------------------------------------------------------------- *)
(* Observations of one tick (one iteration of the for loop)                *)
(* ---------------------------------------------------------------------- *)

\* calls   : the queries called in this tick, in order
\* winq    : outcome of getActiveWindowTitle ("none" before it returned)
\* procq   : outcome of getActiveProcessName
\* counts  : the values assigned to consecutiveErrors in this tick, in order
\* out     : the lines emitted in this tick, in order
\* sleeps  : the durations slept in this tick, in order
\* samples : the ActivityInfo values constructed in this tick
EmptyTick ==
  [calls |-> <<>>, winq |-> "none", procq |-> "none", counts |-> <<>>,
   out |-> <<>>, sleeps |-> <<>>, samples |-> <<>>]

\* what is remembered of a completed tick
Tags == {"browser", "editor", "terminal-editor"}

\* how many of the lines in out are in the set S
RECURSIVE Count(_, _)
Count(out, S) ==
  IF out = <<>> THEN 0
  ELSE (IF Head(out) \in S THEN 1 ELSE 0) + Count(Tail(out), S)

Summary(c) ==
  [calls |-> c.calls, winq |-> c.winq, procq |-> c.procq,
   counts |-> c.counts, sleeps |-> c.sleeps,
   guidance |-> Count(c.out, {"guidance"}) > 0,
   samples |-> Len(c.samples),
   reports |-> Count(c.out, {"report"}),
   tags |-> Count(c.out, Tags)]

Push(h, e) ==
  IF Len(h) < MaxHist THEN Append(h, e) ELSE Append(Tail(h), e)

(* ---------------------------------------------------------------------- *)
(* Initial state: the process has been started, main has not run yet       *)
(* ---------------------------------------------------------------------- *)

Init ==
  /\ pc = "main"
  /\ checks = <<>>
  /\ consecutiveErrors = 0
  /\ windowID = NoWin
  /\ pid = NoWin
  /\ err = FALSE
  /\ windowTitle = NoString
  /\ processName = NoString
  /\ cur = EmptyTick
  /\ hist = <<>>

(* ---------------------------------------------------------------------- *)
(* main and checkDependencies                                              *)
(* ---------------------------------------------------------------------- *)

\* main: log "Starting activity monitor...", call checkDependencies
main_Start ==
  /\ pc = "main"
  /\ pc' = "LookPath"
  /\ UNCHANGED <<checks, consecutiveErrors, windowID, pid, err, windowTitle,
                 processName, cur, hist>>

\* exec.LookPath("xdotool")
checkDependencies_LookPath ==
  /\ pc = "LookPath"
  /\ \E found \in BOOLEAN :
       /\ checks' = Append(checks, found)
       /\ IF found
          THEN pc' = "getdisplaygeometry" /\ err' = FALSE
          ELSE pc' = "checked" /\ err' = TRUE
  /\ UNCHANGED <<consecutiveErrors, windowID, pid, windowTitle,
                 processName, cur, hist>>

\* exec.Command("xdotool", "getdisplaygeometry").Output()
checkDependencies_Display ==
  /\ pc = "getdisplaygeometry"
  /\ \E ok \in BOOLEAN :
       /\ checks' = Append(checks, ok)
       /\ err' = ~ok
  /\ pc' = "checked"
  /\ UNCHANGED <<consecutiveErrors, windowID, pid, windowTitle,
                 processName, cur, hist>>

\* the error is logged and main goes on to monitorActivity
main_Fatal_Continue ==
  /\ pc = "checked"
  /\ err
  /\ consecutiveErrors' = 0
  /\ err' = FALSE
  /\ pc' = "L77"
  /\ UNCHANGED <<checks, windowID, pid, windowTitle, processName,
                 cur, hist>>

\* if err := checkDependencies(); err != nil { log.Fatalf(...) }
main_Fatal ==
  /\ pc = "checked"
  /\ err
  /\ pc' = "exited"
  /\ UNCHANGED <<checks, consecutiveErrors, windowID, pid, err, windowTitle,
                 processName, cur, hist>>

\* the two Println, then monitorActivity(5 * time.Second) up to the for
main_Monitor ==
  /\ pc = "checked"
  /\ ~err
  /\ consecutiveErrors' = 0
  /\ pc' = "L77"
  /\ UNCHANGED <<checks, windowID, pid, err, windowTitle, processName,
                 cur, hist>>

(* ---------------------------------------------------------------------- *)
(* getActiveWindowTitle                                                    *)
(* ---------------------------------------------------------------------- *)

\* line 77 calls the function; xdotool getactivewindow
WindowTitle_getactivewindow ==
  /\ pc = "L77"
  /\ \E w \in ActiveWindow :
       IF w # NoWin
       THEN /\ windowID' = w
            /\ err' = FALSE
            /\ cur' = [cur EXCEPT !.calls = Append(@, "WindowQuery")]
            /\ pc' = "getwindowname"
       ELSE /\ windowID' = NoWin
            /\ err' = TRUE
            /\ cur' = [cur EXCEPT !.calls = Append(@, "WindowQuery"),
                                  !.winq = "fail"]
            /\ pc' = "L78"
  /\ UNCHANGED <<checks, consecutiveErrors, pid, windowTitle, processName,
                 hist>>

\* xdotool getwindowname <id>, and the return
WindowTitle_getwindowname ==
  /\ pc = "getwindowname"
  /\ \E ok \in BOOLEAN :
       IF ok
       THEN /\ windowTitle' = TrimSpace(WindowNameOutput(windowID))
            /\ err' = FALSE
            /\ cur' = [cur EXCEPT !.winq = "ok"]
       ELSE /\ windowTitle' = NoString
            /\ err' = TRUE
            /\ cur' = [cur EXCEPT !.winq = "fail"]
  /\ windowID' = NoWin
  /\ pc' = "L78"
  /\ UNCHANGED <<checks, consecutiveErrors, pid, processName, hist>>

(* ---------------------------------------------------------------------- *)
(* getActiveProcessName                                                    *)
(* ---------------------------------------------------------------------- *)

\* line 100 calls the function; xdotool getactivewindow
ProcessName_getactivewindow ==
  /\ pc = "L100"
  /\ \E w \in ActiveWindow :
       IF w # NoWin
       THEN /\ windowID' = w
            /\ err' = FALSE
            /\ cur' = [cur EXCEPT !.calls = Append(@, "ProcessQuery")]
            /\ pc' = "getwindowpid"
       ELSE /\ windowID' = NoWin
            /\ err' = TRUE
            /\ cur' = [cur EXCEPT !.calls = Append(@, "ProcessQuery"),
                                  !.procq = "fail"]
            /\ pc' = "L101"
  /\ UNCHANGED <<checks, consecutiveErrors, pid, windowTitle, processName,
                 hist>>

\* xdotool getwindowpid <id>
ProcessName_getwindowpid ==
  /\ pc = "getwindowpid"
  /\ \E ok \in BOOLEAN :
       IF ok
       THEN /\ pid' = PidOf(windowID)
            /\ err' = FALSE
            /\ cur' = cur
            /\ pc' = "ps"
       ELSE /\ pid' = NoWin
            /\ err' = TRUE
            /\ cur' = [cur EXCEPT !.procq = "fail"]
            /\ pc' = "L101"
  /\ windowID' = NoWin
  /\ UNCHANGED <<checks, consecutiveErrors, windowTitle, processName, hist>>

\* ps -p <pid> -o comm=, and the return
ProcessName_ps ==
  /\ pc = "ps"
  /\ \E ok \in BOOLEAN :
       IF ok
       THEN /\ processName' = TrimSpace(PsOutput(pid))
            /\ err' = FALSE
            /\ cur' = [cur EXCEPT !.procq = "ok"]
       ELSE /\ processName' = NoString
            /\ err' = TRUE
            /\ cur' = [cur EXCEPT !.procq = "fail"]
  /\ pid' = NoWin
  /\ pc' = "L101"
  /\ UNCHANGED <<checks, consecutiveErrors, windowID, windowTitle, hist>>

(* ---------------------------------------------------------------------- *)
(* monitorActivity                                                         *)
(* ---------------------------------------------------------------------- *)

\* the tick c is over (continue, or the end of the loop body): its
\* summary is remembered and the variables of the body go out of scope
EndTick(c) ==
  /\ hist' = Push(hist, Summary(c))
  /\ cur' = EmptyTick
  /\ err' = FALSE
  /\ windowTitle' = NoString
  /\ processName' = NoString
  /\ pc' = "L77"

\* the comparison taken as strict
ThresholdReached_Strict(n) == n > maxConsecutiveErrors

\* the comparison off by one the other way
ThresholdReached_Early(n) == n >= maxConsecutiveErrors - 1

\* consecutiveErrors >= maxConsecutiveErrors
ThresholdReached(n) == n >= maxConsecutiveErrors

\* if err != nil { consecutiveErrors++; log.Printf(...)
WindowTitleError ==
  /\ pc = "L78"
  /\ err
  /\ consecutiveErrors' = consecutiveErrors + 1
  /\ cur' = [cur EXCEPT !.counts = Append(@, consecutiveErrors + 1),
                        !.out = Append(@, "werr")]
  /\ pc' = "L83"
  /\ UNCHANGED <<checks, windowID, pid, err, windowTitle, processName, hist>>

\* if consecutiveErrors >= maxConsecutiveErrors { the six log.Println
TooManyErrors ==
  /\ pc = "L83"
  /\ ThresholdReached(consecutiveErrors)
  /\ cur' = [cur EXCEPT !.out = Append(@, "guidance")]
  /\ pc' = "L90"
  /\ UNCHANGED <<checks, consecutiveErrors, windowID, pid, err, windowTitle,
                 processName, hist>>

\* the backoff sleeps the polling interval
BackoffSleep_Interval ==
  /\ pc = "L90"
  /\ cur' = [cur EXCEPT !.sleeps = Append(@, interval)]
  /\ pc' = "L91"
  /\ UNCHANGED <<checks, consecutiveErrors, windowID, pid, err, windowTitle,
                 processName, hist>>

\* time.Sleep(10 * time.Second)
BackoffSleep ==
  /\ pc = "L90"
  /\ cur' = [cur EXCEPT !.sleeps = Append(@, errorBackoff)]
  /\ pc' = "L91"
  /\ UNCHANGED <<checks, consecutiveErrors, windowID, pid, err, windowTitle,
                 processName, hist>>

\* the monitor gives up after the backoff
BackoffReset_Exit ==
  /\ pc = "L91"
  /\ pc' = "exited"
  /\ UNCHANGED <<checks, consecutiveErrors, windowID, pid, err,
                 windowTitle, processName, cur, hist>>

\* the backoff resets the counter and then sleeps the interval as well
BackoffReset_AlsoInterval ==
  /\ pc = "L91"
  /\ consecutiveErrors' = 0
  /\ EndTick([cur EXCEPT !.counts = Append(@, 0),
                         !.sleeps = Append(@, interval)])
  /\ UNCHANGED <<checks, windowID, pid>>

\* the backoff continues without resetting the counter
BackoffReset_NoReset ==
  /\ pc = "L91"
  /\ EndTick(cur)
  /\ UNCHANGED <<checks, consecutiveErrors, windowID, pid>>

\* consecutiveErrors = 0; continue
BackoffReset ==
  /\ pc = "L91"
  /\ consecutiveErrors' = 0
  /\ EndTick([cur EXCEPT !.counts = Append(@, 0)])
  /\ UNCHANGED <<checks, windowID, pid>>

\* below the threshold the tick sleeps and, with no continue, goes on to
\* the statements after the error branch
WindowTitleErrorSleep_NoContinue ==
  /\ pc = "L83"
  /\ ~ThresholdReached(consecutiveErrors)
  /\ consecutiveErrors' = 0
  /\ cur' = [cur EXCEPT !.sleeps = Append(@, interval),
                        !.counts = Append(@, 0)]
  /\ pc' = "L100"
  /\ UNCHANGED <<checks, windowID, pid, err, windowTitle, processName, hist>>

\* below the threshold: time.Sleep(interval); continue
WindowTitleErrorSleep ==
  /\ pc = "L83"
  /\ ~ThresholdReached(consecutiveErrors)
  /\ EndTick([cur EXCEPT !.sleeps = Append(@, interval)])
  /\ UNCHANGED <<checks, consecutiveErrors, windowID, pid>>

\* the success path without the reset of line 98
ResetOnSuccess_NoReset ==
  /\ pc = "L78"
  /\ ~err
  /\ pc' = "L100"
  /\ UNCHANGED <<checks, consecutiveErrors, windowID, pid, err,
                 windowTitle, processName, cur, hist>>

\* err == nil: consecutiveErrors = 0 // Reset error counter on success
ResetOnSuccess ==
  /\ pc = "L78"
  /\ ~err
  /\ consecutiveErrors' = 0
  /\ cur' = [cur EXCEPT !.counts = Append(@, 0)]
  /\ pc' = "L100"
  /\ UNCHANGED <<checks, windowID, pid, err, windowTitle, processName, hist>>

\* the process-name error path without its continue: the body goes on
\* to build and print the sample
ProcessNameError_NoContinue ==
  /\ pc = "L101"
  /\ err
  /\ cur' = [cur EXCEPT
               !.out = @ \o <<"perr", "report">>,
               !.sleeps = Append(@, interval),
               !.samples = Append(@, [WindowTitle |-> windowTitle,
                                      ProcessName |-> processName])]
  /\ pc' = "L120"
  /\ UNCHANGED <<checks, consecutiveErrors, windowID, pid, err,
                 windowTitle, processName, hist>>

\* the process-name error path counting its failure as well
ProcessNameError_Counted ==
  /\ pc = "L101"
  /\ err
  /\ consecutiveErrors' = consecutiveErrors + 1
  /\ EndTick([cur EXCEPT !.out = Append(@, "perr"),
                         !.sleeps = Append(@, interval)])
  /\ UNCHANGED <<checks, windowID, pid>>

\* if err != nil { log.Printf(...); time.Sleep(interval); continue }
ProcessNameError ==
  /\ pc = "L101"
  /\ err
  /\ EndTick([cur EXCEPT !.out = Append(@, "perr"),
                         !.sleeps = Append(@, interval)])
  /\ UNCHANGED <<checks, consecutiveErrors, windowID, pid>>

\* activity := ActivityInfo{...}; fmt.Printf("[%s] Process: %s | Window: %s\n"
Report ==
  /\ pc = "L101"
  /\ ~err
  /\ cur' = [cur EXCEPT
               !.samples = Append(@, [WindowTitle |-> windowTitle,
                                      ProcessName |-> processName]),
               !.out = Append(@, "report")]
  /\ pc' = "L120"
  /\ UNCHANGED <<checks, consecutiveErrors, windowID, pid, err, windowTitle,
                 processName, hist>>

\* every case that matches prints its line
Classification_AllMatches(name) ==
  (IF Contains(ToLower(name), chrome) THEN <<"browser">> ELSE <<>>)
  \o (IF Contains(ToLower(name), code) THEN <<"editor">> ELSE <<>>)
  \o (IF Contains(ToLower(name), nvim) THEN <<"terminal-editor">> ELSE <<>>)

\* the switch on strings.Contains(strings.ToLower(processName), ...)
Classification(name) ==
  IF Contains(ToLower(name), chrome) THEN <<"browser">>
  ELSE IF Contains(ToLower(name), code) THEN <<"editor">>
  ELSE IF Contains(ToLower(name), nvim) THEN <<"terminal-editor">>
  ELSE <<>>

\* switch { case ...: fmt.Println("-> ... activity detected") }
Classify ==
  /\ pc = "L120"
  /\ cur' = [cur EXCEPT !.out = @ \o Classification(processName)]
  /\ pc' = "L129"
  /\ UNCHANGED <<checks, consecutiveErrors, windowID, pid, err, windowTitle,
                 processName, hist>>

\* time.Sleep(interval) at the end of the loop body
IntervalSleep ==
  /\ pc = "L129"
  /\ EndTick([cur EXCEPT !.sleeps = Append(@, interval)])
  /\ UNCHANGED <<checks, consecutiveErrors, windowID, pid>>

(* ---------------------------------------------------------------------- *)
(* Specifications                                                          *)
(* ---------------------------------------------------------------------- *)

Monitor ==
  \/ main_Start
  \/ checkDependencies_LookPath
  \/ checkDependencies_Display
  \/ main_Fatal
  \/ main_Monitor
  \/ WindowTitle_getactivewindow
  \/ WindowTitle_getwindowname
  \/ WindowTitleError
  \/ TooManyErrors
  \/ BackoffSleep
  \/ BackoffReset
  \/ WindowTitleErrorSleep
  \/ ResetOnSuccess
  \/ ProcessName_getactivewindow
  \/ ProcessName_getwindowpid
  \/ ProcessName_ps
  \/ ProcessNameError
  \/ Report
  \/ Classify
  \/ IntervalSleep

Next == Monitor

Spec == Init /\ [][Next]_vars

\* every external command and every sleep returns: the monitor, a single
\* sequential thread, takes its next step whatever the desktop does
LiveSpec == Spec /\ WF_vars(Monitor)

(* ---------------------------------------------------------------------- *)
(* Vocabulary of the properties                                            *)
(* ---------------------------------------------------------------------- *)

\* the remembered ticks followed by the tick in progress
Ticks == hist \o <<Summary(cur)>>

Last(s) == s[Len(s)]

\* the tick failed on the window title and slept the interval only
PlainFailure(t) == t.winq = "fail" /\ ~t.guidance

\* tick j of Ticks starts a run: it is the first tick of the program, or
\* the tick before it had a window-title success or a backoff
RunStart(j) ==
  \/ j = 1 /\ Len(hist) < MaxHist
  \/ j > 1 /\ (Ticks[j-1].winq = "ok" \/ Ticks[j-1].guidance)

LoopPcs ==
  {"L77", "getwindowname", "L78", "L83", "L90", "L91", "L100",
   "getwindowpid", "ps", "L101", "L120", "L129"}

(* ---------------------------------------------------------------------- *)
(* C1                                                                      *)
(* ---------------------------------------------------------------------- *)

\* C1: consecutiveErrors is in 0..3 in every reachable state, the states
\* between the increment of a window-title failure and the reset after the
\* backoff included.
C1_CounterBounded == consecutiveErrors \in 0..3

\* the counter stands at 3 after the backoff sleep, before the reset
C1_Witness ==
  /\ pc = "L91"
  /\ consecutiveErrors = 3
  /\ cur.sleeps = <<10>>

(* ---------------------------------------------------------------------- *)
(* C2                                                                      *)
(* ---------------------------------------------------------------------- *)

\* C2: once getActiveWindowTitle has succeeded in a tick and the loop has
\* passed the statement that follows the call, consecutiveErrors is 0, and
\* it is 0 in every later state of that tick (the process query, the
\* report, the classification, up to the interval sleep).
C2_ZeroAfterSuccess ==
  (cur.winq = "ok" /\ pc # "L78") =>
     /\ consecutiveErrors = 0
     /\ cur.counts = <<0>>

\* a success after two failures: the counter was 2 before the tick
C2_Witness ==
  /\ cur.winq = "ok"
  /\ pc = "L129"
  /\ hist # <<>>
  /\ Last(hist).counts = <<2>>
  /\ consecutiveErrors = 0

(* ---------------------------------------------------------------------- *)
(* C3                                                                      *)
(* ---------------------------------------------------------------------- *)

\* C3: in the tick in progress a sample, a report line or a tag exists
\* only if both queries succeeded in this tick, and never more than one
\* sample and one report line; every completed tick has exactly one sample
\* and one report line if both of its queries succeeded, and no sample, no
\* report line and no tag otherwise.
C3_ReportIffBothSucceed ==
  /\ Len(cur.samples) = Count(cur.out, {"report"})
  /\ Len(cur.samples) <= 1
  /\ (cur.winq # "ok" \/ cur.procq # "ok") =>
        /\ cur.samples = <<>>
        /\ Count(cur.out, {"report"} \cup Tags) = 0
  /\ \A i \in 1..Len(hist) :
        IF hist[i].winq = "ok" /\ hist[i].procq = "ok"
        THEN hist[i].samples = 1 /\ hist[i].reports = 1
        ELSE hist[i].samples = 0 /\ hist[i].reports = 0 /\ hist[i].tags = 0

\* a report right after a backoff, and a tick that failed on the process
C3_Witness ==
  /\ Len(hist) >= 2
  /\ hist[Len(hist) - 1].guidance
  /\ Last(hist).samples = 1
  /\ cur.winq = "ok"
  /\ cur.procq = "fail"
  /\ pc = "L101"

(* ---------------------------------------------------------------------- *)
(* C4                                                                      *)
(* ---------------------------------------------------------------------- *)

\* the tick in progress is the third window-title failure in a row
ThirdFailure ==
  /\ Len(hist) >= 2
  /\ PlainFailure(hist[Len(hist) - 1])
  /\ PlainFailure(Last(hist))
  /\ cur.winq = "fail"

\* C4: when two ticks in a row failed on the window title without a
\* backoff, a third failure takes the backoff: once its counter is
\* incremented the loop is at the threshold test or beyond with the counter
\* at 3, the guidance is emitted before the sleep, the only sleep of the
\* tick is 10 s, the counter is still 3 after the sleep and is reset by the
\* last step of the tick, which leads to the next window query.
C4_BackoffOnThird ==
  /\ ThirdFailure =>
        /\ pc \in {"L78", "L83", "L90", "L91"}
        /\ pc # "L78" => consecutiveErrors = 3
        /\ pc \in {"L90", "L91"} => cur.out = <<"werr", "guidance">>
        /\ pc = "L91" => cur.sleeps = <<10>>
        /\ pc # "L91" => cur.sleeps = <<>>
  /\ \A i \in 3..Len(hist) :
        (PlainFailure(hist[i-2]) /\ PlainFailure(hist[i-1])
           /\ hist[i].winq = "fail") =>
            /\ hist[i].guidance
            /\ hist[i].sleeps = <<10>>
            /\ hist[i].counts = <<3, 0>>
            /\ (i = Len(hist) /\ cur = EmptyTick) =>
                   (pc = "L77" /\ consecutiveErrors = 0)

\* the third failure has been through its backoff; the next tick is due
C4_Witness ==
  /\ Len(hist) = 3
  /\ PlainFailure(hist[1])
  /\ PlainFailure(hist[2])
  /\ hist[3].winq = "fail"
  /\ hist[3].sleeps = <<10>>
  /\ pc = "L77"
  /\ consecutiveErrors = 0

(* ---------------------------------------------------------------------- *)
(* C5                                                                      *)
(* ---------------------------------------------------------------------- *)

\* ticks j .. j+k-1 are a run of k window-title failures that starts at a
\* run start and tick j+k has a window-title success
FailuresThenSuccess(j, k) ==
  /\ j + k <= Len(Ticks)
  /\ RunStart(j)
  /\ \A m \in 0..(k-1) : Ticks[j+m].winq = "fail"
  /\ Ticks[j+k].winq = "ok"

\* C5: a run of k = 1 or 2 window-title failures followed by a success
\* sets the counter to 1, ..., k and then to 0; each failing tick sleeps the
\* interval (5 s) once and emits no guidance.
C5_NoBackoffBelowThreshold ==
  \A j \in 1..Len(Ticks) : \A k \in 1..2 :
     FailuresThenSuccess(j, k) =>
        /\ \A m \in 0..(k-1) :
              /\ Ticks[j+m].counts = <<m + 1>>
              /\ Ticks[j+m].sleeps = <<5>>
              /\ ~Ticks[j+m].guidance
        /\ Ticks[j+k].counts \in {<<>>, <<0>>}
        /\ Ticks[j+k].counts = <<>> => (j + k = Len(Ticks) /\ pc = "L78")
        /\ ~Ticks[j+k].guidance

\* success, failure, failure, success: the counter went 1, 2, 0
C5_Witness ==
  /\ Len(hist) = 3
  /\ FailuresThenSuccess(2, 2)
  /\ hist[2].counts = <<1>>
  /\ hist[3].counts = <<2>>
  /\ cur.counts = <<0>>
  /\ consecutiveErrors = 0

(* ---------------------------------------------------------------------- *)
(* C6                                                                      *)
(* ---------------------------------------------------------------------- *)

\* the tick had a window-title success and a process-name failure
ProcessFailure(t) == t.winq = "ok" /\ t.procq = "fail"

\* C6: a process-name failure leaves consecutiveErrors at the value it had
\* when getActiveProcessName was called (0, the only assignment of the
\* tick), constructs no sample, sleeps the interval once, and the tick
\* after it begins with a call of the window query.
C6_ProcessFailureFrame ==
  /\ cur.procq = "fail" =>
        /\ cur.winq = "ok"
        /\ consecutiveErrors = 0
        /\ cur.counts = <<0>>
        /\ cur.samples = <<>>
        /\ cur.sleeps = <<>>
  /\ \A i \in 1..Len(hist) :
        ProcessFailure(hist[i]) =>
           /\ hist[i].counts = <<0>>
           /\ hist[i].samples = 0
           /\ hist[i].reports = 0
           /\ hist[i].sleeps = <<5>>
           /\ Ticks[i+1].calls # <<>> => Ticks[i+1].calls[1] = "WindowQuery"
           /\ (i = Len(hist) /\ cur = EmptyTick) =>
                  (pc = "L77" /\ consecutiveErrors = 0)

\* the tick after a process-name failure has called the window query
C6_Witness ==
  /\ hist # <<>>
  /\ ProcessFailure(Last(hist))
  /\ Last(hist).sleeps = <<5>>
  /\ cur.calls = <<"WindowQuery">>

(* ---------------------------------------------------------------------- *)
(* C7                                                                      *)
(* ---------------------------------------------------------------------- *)

\* C7: after a failed preflight check the program is at the test of the
\* error or has exited, and no query was called and no tick was run; the
\* loop runs only after both checks passed.
C7_PreflightGate ==
  /\ (\E i \in 1..Len(checks) : ~checks[i]) =>
        /\ pc \in {"checked", "exited"}
        /\ cur = EmptyTick
        /\ hist = <<>>
  /\ pc = "exited" => (\E i \in 1..Len(checks) : ~checks[i])
  /\ pc \in LoopPcs => checks = <<TRUE, TRUE>>

\* the tool is there, the display check failed, the program has exited
C7_Witness ==
  /\ pc = "exited"
  /\ checks = <<TRUE, FALSE>>
(* ---------------------------------------------------------------------- *)
(* C8                                                                      *)
(* ---------------------------------------------------------------------- *)

\* the window query has been called in the tick in progress
WindowQueryCalled == pc \in LoopPcs /\ cur.calls # <<>>

\* C8: a step taken inside the loop stays inside the loop, and from every
\* point of the loop (after a window-title failure below or at the
\* threshold, after a process-name failure, after a report) the monitor
\* comes back to line 77 and from there calls the window query again.
C8_LoopNeverStops ==
  /\ [][(pc \in LoopPcs) => (pc' \in LoopPcs)]_vars
  /\ (pc \in LoopPcs) ~> (pc = "L77")
  /\ (pc = "L77") ~> WindowQueryCalled

\* the backoff sleep is over and a report was made earlier
C8_Witness ==
  /\ pc = "L91"
  /\ \E i \in 1..Len(hist) : hist[i].samples = 1

(* ---------------------------------------------------------------------- *)
(* C9                                                                      *)
(* ---------------------------------------------------------------------- *)

\* the character c is the lower-case letter l or its capital
SameLetter(c, l) == c = l \/ \E i \in 1..26 : Upper[i] = c /\ Lower[i] = l

\* the lower-case word occurs in s at some position, whatever the case of
\* the letters of s
ContainsFold(s, word) ==
  \E k \in 1..Len(s) :
     /\ k + Len(word) - 1 <= Len(s)
     /\ \A m \in 1..Len(word) : SameLetter(s[k + m - 1], word[m])

IsTag(x) == x \in Tags

\* the tags printed in the tick in progress
TagsPrinted == SelectSeq(cur.out, IsTag)

\* the sample of this tick has been reported and classified
Classified == pc = "L129" /\ Len(cur.samples) = 1

\* C9: the tag printed for a reported sample follows from case-insensitive
\* containment on the process name: "chrome" gives browser, else "code"
\* gives editor, else "nvim" gives terminal-editor, else there is no tag;
\* so for "Google-chrome", "Code", "nvim-qt", "bash" and "codecov".
C9_TagByContainment ==
  Classified =>
    LET n == cur.samples[1].ProcessName
        t == TagsPrinted
    IN  /\ ContainsFold(n, chrome) => t = <<"browser">>
        /\ (~ContainsFold(n, chrome) /\ ContainsFold(n, code)) =>
              t = <<"editor">>
        /\ (~ContainsFold(n, chrome) /\ ~ContainsFold(n, code)
              /\ ContainsFold(n, nvim)) => t = <<"terminal-editor">>
        /\ (~ContainsFold(n, chrome) /\ ~ContainsFold(n, code)
              /\ ~ContainsFold(n, nvim)) => t = <<>>
        /\ n = <<"G","o","o","g","l","e","-","c","h","r","o","m","e">> =>
              t = <<"browser">>
        /\ n = <<"C","o","d","e">> => t = <<"editor">>
        /\ n = <<"n","v","i","m","-","q","t">> => t = <<"terminal-editor">>
        /\ n = <<"b","a","s","h">> => t = <<>>
        /\ n = <<"c","o","d","e","c","o","v">> => t = <<"editor">>

\* "Code" has been reported and tagged as editor activity
C9_Witness ==
  /\ Classified
  /\ cur.samples[1].ProcessName = <<"C","o","d","e">>
  /\ cur.out = <<"report", "editor">>

(* ---------------------------------------------------------------------- *)
(* C10                                                                     *)
(* ---------------------------------------------------------------------- *)

\* C10: a tick prints at most one tag, and only right after the report
\* line of the same tick; a name with both "chrome" and "code" gets the
\* browser tag only, a name with both "code" and "nvim" (and no "chrome")
\* the editor tag only.
C10_FirstMatchWins ==
  /\ Len(TagsPrinted) <= 1
  /\ \A i \in 1..Len(cur.out) :
        IsTag(cur.out[i]) => (i > 1 /\ cur.out[i-1] = "report")
  /\ \A i \in 1..Len(hist) : hist[i].tags <= hist[i].reports
  /\ Classified =>
       LET n == cur.samples[1].ProcessName
       IN  /\ (ContainsFold(n, chrome) /\ ContainsFold(n, code)) =>
                 TagsPrinted = <<"browser">>
           /\ (ContainsFold(n, code) /\ ContainsFold(n, nvim)
                 /\ ~ContainsFold(n, chrome)) => TagsPrinted = <<"editor">>

\* a name with "code" before "Chrome" has been tagged as browser activity
C10_Witness ==
  /\ Classified
  /\ ContainsFold(cur.samples[1].ProcessName, chrome)
  /\ ContainsFold(cur.samples[1].ProcessName, code)
  /\ cur.out = <<"report", "browser">>

(* ---------------------------------------------------------------------- *)
(* C11                                                                     *)
(* ---------------------------------------------------------------------- *)

\* the backoff of the tick in progress has started: the guidance is out,
\* the loop is at the 10 s sleep or has just slept it
BackoffStarted == pc \in {"L90", "L91"}

\* C11 as stated: the backoff starts only when the number of accumulated
\* window-title failures is strictly greater than 3.
C11_BackoffOnlyAboveThreshold == BackoffStarted => consecutiveErrors > 3

\* C11 as amended: the backoff starts only when the number of accumulated
\* window-title failures has reached the threshold, and it is then exactly
\* 3; every remembered tick with a backoff counted 3 and then 0.
C11_BackoffOnlyAtThreshold ==
  /\ BackoffStarted =>
        /\ consecutiveErrors >= 3
        /\ consecutiveErrors = 3
        /\ cur.winq = "fail"
  /\ \A i \in 1..Len(hist) :
        (hist[i].guidance \/ hist[i].sleeps = <<10>>) =>
           hist[i].counts = <<3, 0>>

\* the guidance is out and the 10 s sleep is about to start, at 3 failures
C11_Witness ==
  /\ pc = "L90"
  /\ consecutiveErrors = 3
  /\ cur.out = <<"werr", "guidance">>

(* ---------------------------------------------------------------------- *)
(* C12                                                                     *)
(* ---------------------------------------------------------------------- *)

\* C12: a tick takes the backoff only if its window query failed, and the
\* process query was not called in it; a tick with a window-title success
\* and a process-name failure takes no backoff, sets the counter to 0 and
\* leaves it at 0 for the next tick, so that a window-title failure right
\* after it counts 1 again and takes no backoff.
C12_OnlyWindowFailuresCount ==
  /\ (Count(cur.out, {"guidance"}) > 0 \/ cur.sleeps = <<10>>) =>
        /\ cur.winq = "fail"
        /\ cur.procq = "none"
        /\ cur.calls = <<"WindowQuery">>
  /\ \A i \in 1..Len(hist) :
        /\ (hist[i].guidance \/ hist[i].sleeps = <<10>>) =>
              /\ hist[i].winq = "fail"
              /\ hist[i].procq = "none"
              /\ hist[i].calls = <<"WindowQuery">>
        /\ ProcessFailure(hist[i]) =>
              /\ ~hist[i].guidance
              /\ hist[i].counts = <<0>>
              /\ hist[i].sleeps = <<5>>
              /\ (i = Len(hist) /\ pc \in {"L77", "getwindowname", "L78"}) =>
                    consecutiveErrors = 0
              /\ Ticks[i+1].winq = "fail" =>
                    /\ Ticks[i+1].counts \in {<<>>, <<1>>}
                    /\ ~Ticks[i+1].guidance
                    /\ Ticks[i+1].sleeps \in {<<>>, <<5>>}

\* fail, fail, success with a process-name failure, fail: 1, 2, 0, 1
C12_Witness ==
  /\ Len(hist) = 3
  /\ hist[1].counts = <<1>>
  /\ hist[2].counts = <<2>>
  /\ ProcessFailure(hist[3])
  /\ cur.winq = "fail"
  /\ cur.counts = <<1>>
  /\ pc = "L83"

(* ---------------------------------------------------------------------- *)
(* C13                                                                     *)
(* ---------------------------------------------------------------------- *)

\* the queries a tick may have called, in order
CallOrders ==
  {<<>>, <<"WindowQuery">>, <<"WindowQuery", "ProcessQuery">>}

\* C13: the calls of a tick are the window query, once and first, then at
\* most one process query, made only after the window query succeeded in
\* that tick; no tick goes beyond line 77 without calling the window query
\* and a tick whose window query failed calls nothing else.
C13_CallOrder ==
  /\ cur.calls \in CallOrders
  /\ (pc \in LoopPcs /\ pc # "L77") => cur.calls # <<>>
  /\ Len(cur.calls) = 2 => cur.winq = "ok"
  /\ cur.winq = "fail" => cur.calls = <<"WindowQuery">>
  /\ \A i \in 1..Len(hist) :
        /\ hist[i].calls \in CallOrders \ {<<>>}
        /\ Len(hist[i].calls) = 2 => hist[i].winq = "ok"
        /\ hist[i].winq = "fail" => hist[i].calls = <<"WindowQuery">>

\* a tick that called the window query only, then one that called both
C13_Witness ==
  /\ hist # <<>>
  /\ Last(hist).winq = "fail"
  /\ Last(hist).calls = <<"WindowQuery">>
  /\ cur.calls = <<"WindowQuery", "ProcessQuery">>

(* ---------------------------------------------------------------------- *)
(* C14                                                                     *)
(* ---------------------------------------------------------------------- *)

\* the window-title failure of tick t brought the counter to the threshold
AtThreshold(t) == t.winq = "fail" /\ t.counts # <<>> /\ t.counts[1] >= 3

\* C14: every completed tick slept exactly once before the next window
\* query: 10 s if its window-title failure reached the threshold, 5 s
\* otherwise (a report, a process-name failure, a window-title failure
\* below the threshold); inside a tick nothing has been slept yet, except
\* the 10 s of a backoff whose reset is still to come.
C14_OneSleepPerTick ==
  /\ Len(cur.sleeps) <= 1
  /\ cur.sleeps # <<>> => (pc = "L91" /\ cur.sleeps = <<10>>)
  /\ \A i \in 1..Len(hist) :
        /\ Len(hist[i].sleeps) = 1
        /\ hist[i].sleeps = (IF AtThreshold(hist[i]) THEN <<10>> ELSE <<5>>)
        /\ hist[i].calls # <<>>

\* a backoff tick (10 s) followed by a reporting tick (5 s); the next
\* window query is due
C14_Witness ==
  /\ Len(hist) >= 2
  /\ hist[Len(hist) - 1].sleeps = <<10>>
  /\ Last(hist).samples = 1
  /\ Last(hist).sleeps = <<5>>
  /\ pc = "L77"

(* ---------------------------------------------------------------------- *)
(* C15                                                                     *)
(* ---------------------------------------------------------------------- *)

\* ticks j, j+1, j+2 of Ticks all failed on the window title, from a run
\* start on
ThreeFailures(j) ==
  /\ j + 2 <= Len(Ticks)
  /\ RunStart(j)
  /\ \A m \in 0..2 : Ticks[j+m].winq = "fail"

\* C15: when a tick is about to call the window query the counter is in
\* 0..2, and it is 0 for the first tick and for a tick that follows a
\* backoff; three window-title failures in a row from a run start sleep
\* 5 s, 5 s and 10 s, with the guidance on the third only, and the tick
\* after the third starts a run again.
C15_StartOfTick ==
  /\ pc = "L77" =>
        /\ consecutiveErrors \in 0..2
        /\ hist = <<>> => consecutiveErrors = 0
        /\ (hist # <<>> /\ Last(hist).guidance) => consecutiveErrors = 0
        /\ (hist # <<>> /\ PlainFailure(Last(hist))) =>
              <<consecutiveErrors>> = Last(hist).counts
  /\ \A j \in 1..Len(Ticks) :
        ThreeFailures(j) =>
           /\ \A m \in 0..1 :
                 /\ Ticks[j+m].sleeps = <<5>>
                 /\ Ticks[j+m].counts = <<m + 1>>
                 /\ ~Ticks[j+m].guidance
           /\ Ticks[j+2].sleeps \in {<<>>, <<10>>}
           /\ j + 2 <= Len(hist) =>
                 /\ Ticks[j+2].sleeps = <<10>>
                 /\ Ticks[j+2].guidance
                 /\ RunStart(j + 3)
           /\ j + 2 = Len(Ticks) => pc \in {"L78", "L83", "L90", "L91"}

\* a backoff, two failures that slept 5 s, and the backoff sleep again
C15_Witness ==
  /\ Len(hist) = 3
  /\ hist[1].guidance
  /\ hist[2].winq = "fail"
  /\ hist[2].sleeps = <<5>>
  /\ hist[3].winq = "fail"
  /\ hist[3].sleeps = <<5>>
  /\ cur.winq = "fail"
  /\ cur.sleeps = <<10>>

(* ---------------------------------------------------------------------- *)
(* C16                                                                     *)
(* ---------------------------------------------------------------------- *)

\* the sample pairs the title of some window with the name of the process
\* that owns that same window
SameWindow(sample) ==
  \E w \in Windows :
     /\ sample.WindowTitle = TitleOf(w)
     /\ sample.ProcessName = ProcNames[PidOf(w)]

\* C16: in every reported sample the process name is the name of the
\* process that owns the window whose title is the sample's title,
\* whichever windows the two lookups of the active window found.
C16_SampleOfOneWindow ==
  \A i \in 1..Len(cur.samples) : SameWindow(cur.samples[i])
====
